---------------------------- MODULE Spec2Model ----------------------------
(***************************************************************************)
(* State-space search of the AI-Search-Algorithms repository.              *)
(*                                                                         *)
(* Part I models missionaries_and_cannibals/Exercise3.9.py: the problem    *)
(* (is_valid, get_successors), its three searches (breadth_first_search,   *)
(* depth_first_search, a_star_search), one loop iteration per step, and    *)
(* main(), which runs the three searches one after another (Spec).         *)
(*                                                                         *)
(* Part II models shortest_path: the StateSpace a caller builds            *)
(* (state_space.py), the ConvexPolygonPathProblem over it and run_searches *)
(* (search_problem.py), which runs the four graph searches of              *)
(* berkeley_ai.search one after another (SpecPoly).  The Node and the      *)
(* search loop of berkeley_ai.search follow the design document, sections  *)
(* 4.1 and 4.3.                                                            *)
(***************************************************************************)
EXTENDS Integers, Sequences, FiniteSets, TLC

VARIABLES
    initial_state,  \* MissionariesAndCannibals.initial_state
    goal_state,     \* MissionariesAndCannibals.goal_state
    pc,             \* where main() is
    frame,          \* the locals of the search that is running (or just returned)
    solutions,      \* main()'s bfs_solution, dfs_solution, a_star_solution
    space,          \* the StateSpace object
    at,             \* where the caller of StateSpace and run_searches is
    search,         \* the locals of the graph search that is running
    results,        \* run_searches' results dictionary
    calls,          \* how many StateSpace calls were made, by kind
    threads         \* the locals of each of several searches run together

riverVars == <<initial_state, goal_state, pc, frame, solutions>>
polyVars == <<space, at, search, results, calls>>
vars == <<riverVars, polyVars, threads>>

---------------------------------------------------------------------------
(* Python values *)

\* None, and a returned list of actions
None == [some |-> FALSE, path |-> <<>>]
Some(path) == [some |-> TRUE, path |-> path]

\* Python's < on two tuples of integers
RECURSIVE tuple_less(_, _)
tuple_less(a, b) ==
    IF a = <<>> THEN b # <<>>
    ELSE IF b = <<>> THEN FALSE
    ELSE IF Head(a) # Head(b) THEN Head(a) < Head(b)
    ELSE tuple_less(Tail(a), Tail(b))

\* Python's < on two lists of tuples of integers
RECURSIVE list_less(_, _)
list_less(a, b) ==
    IF a = <<>> THEN b # <<>>
    ELSE IF b = <<>> THEN FALSE
    ELSE IF Head(a) # Head(b) THEN tuple_less(Head(a), Head(b))
    ELSE list_less(Tail(a), Tail(b))

\* str(action) of a move tuple
str(action) ==
    CASE action = <<1, 0>> -> "(1, 0)"
      [] action = <<2, 0>> -> "(2, 0)"
      [] action = <<0, 1>> -> "(0, 1)"
      [] action = <<0, 2>> -> "(0, 2)"
      [] action = <<1, 1>> -> "(1, 1)"

\* graph.add_edge(successor, state, ...): the edge drawn the other way
add_edge_reversed(graph, u, v, a) ==
    {e \in graph : ~(e.u = v /\ e.v = u)} \cup {[u |-> v, v |-> u, action |-> a]}

\* nx.DiGraph.add_edge(u, v, action=a): one edge per (u, v), the attribute
\* of a repeated edge is overwritten
add_edge(graph, u, v, a) ==
    {e \in graph : ~(e.u = u /\ e.v = v)} \cup {[u |-> u, v |-> v, action |-> a]}

---------------------------------------------------------------------------
(* MissionariesAndCannibals *)

\* is_valid without the check of the right bank
is_valid_left_bank_only(state) ==
    LET m == state[1]
        c == state[2]
    IN  IF ~(0 <= m /\ m <= 3 /\ 0 <= c /\ c <= 3) THEN FALSE
        ELSE IF m > 0 /\ m < c THEN FALSE
        ELSE TRUE

is_valid(state) ==
    LET m == state[1]
        c == state[2]
        m_right == 3 - m
        c_right == 3 - c
    IN  IF ~(0 <= m /\ m <= 3 /\ 0 <= c /\ c <= 3) THEN FALSE
        ELSE IF m > 0 /\ m < c THEN FALSE
        ELSE IF m_right > 0 /\ m_right < c_right THEN FALSE
        ELSE TRUE

possible_moves == << <<1, 0>>, <<2, 0>>, <<0, 1>>, <<0, 2>>, <<1, 1>> >>

\* the people of the move cross and the boat is left where it was
new_state_boat_stays(state, move) ==
    IF state[3] = 1
    THEN <<state[1] - move[1], state[2] - move[2], 1>>
    ELSE <<state[1] + move[1], state[2] + move[2], 0>>

\* the state a move leads to: the boat crosses with the people of the move
new_state(state, move) ==
    IF state[3] = 1
    THEN <<state[1] - move[1], state[2] - move[2], 0>>
    ELSE <<state[1] + move[1], state[2] + move[2], 1>>

\* get_successors naming each move (c_move, m_move)
get_successors_swapped_action(state) ==
    LET all == [i \in 1..Len(possible_moves) |->
                    <<new_state(state, possible_moves[i]),
                      <<possible_moves[i][2], possible_moves[i][1]>>>>]
    IN  SelectSeq(all, LAMBDA sa : is_valid(sa[1]))

\* the list of (new_state, action), in the order of possible_moves
get_successors(state) ==
    LET all == [i \in 1..Len(possible_moves) |->
                    <<new_state(state, possible_moves[i]), possible_moves[i]>>]
    IN  SelectSeq(all, LAMBDA sa : is_valid(sa[1]))

\* a_star_search's heuristic: the people still on the left bank
heuristic(state) == state[1] + state[2]

---------------------------------------------------------------------------
(* The locals of one search.  frontier is queue / stack / priority_queue;  *)
(* returned says whether the function has returned, value what it returned. *)
(* expansions lists the states given to get_successors, popped the states  *)
(* taken from the frontier, in order.                                      *)

new_frame(frontier) ==
    [frontier |-> frontier, visited |-> {}, graph |-> {},
     returned |-> FALSE, value |-> None,
     expansions |-> <<>>, popped |-> <<>>]

RECURSIVE add_edges(_, _, _)
add_edges(graph, state, succs) ==
    IF succs = <<>> THEN graph
    ELSE add_edges(add_edge(graph, state, Head(succs)[1], str(Head(succs)[2])),
                   state, Tail(succs))

(* breadth_first_search *)

bfs_start == new_frame(<< <<initial_state, <<>>>> >>)

\* queue.pop() in place of queue.popleft(): the newest entry leaves
popleft_takes_newest(queue) ==
    [entry |-> queue[Len(queue)], rest |-> SubSeq(queue, 1, Len(queue) - 1)]

\* queue.popleft()
popleft(queue) == [entry |-> Head(queue), rest |-> Tail(queue)]

\* the pass with the goal test made on each successor as it is appended
bfs_iteration_goal_at_insertion(f) ==
    LET p == popleft(f.frontier)
        state == p.entry[1]
        path == p.entry[2]
        succs == get_successors(state)
        log == [f EXCEPT !.popped = Append(@, state)]
        goals == SelectSeq(succs, LAMBDA sa : sa[1] = goal_state)
    IN  IF state = goal_state
        THEN [log EXCEPT !.frontier = p.rest, !.returned = TRUE, !.value = Some(path)]
        ELSE IF state \notin f.visited /\ goals # <<>>
        THEN [log EXCEPT
                !.visited = @ \cup {state},
                !.frontier = p.rest,
                !.returned = TRUE,
                !.value = Some(Append(path, goals[1][2])),
                !.expansions = Append(@, state)]
        ELSE IF state \notin f.visited
        THEN [log EXCEPT
                !.visited = @ \cup {state},
                !.frontier = p.rest \o [i \in 1..Len(succs) |->
                                  <<succs[i][1], Append(path, succs[i][2])>>],
                !.graph = add_edges(@, state, succs),
                !.expansions = Append(@, state)]
        ELSE [log EXCEPT !.frontier = p.rest]

\* one pass of `while queue:` (the queue is not empty)
bfs_iteration(f) ==
    LET p == popleft(f.frontier)
        state == p.entry[1]
        path == p.entry[2]
        succs == get_successors(state)
        log == [f EXCEPT !.popped = Append(@, state)]
    IN  IF state = goal_state
        THEN [log EXCEPT !.frontier = p.rest, !.returned = TRUE, !.value = Some(path)]
        ELSE IF state \notin f.visited
        THEN [log EXCEPT
                !.visited = @ \cup {state},
                !.frontier = p.rest \o [i \in 1..Len(succs) |->
                                  <<succs[i][1], Append(path, succs[i][2])>>],
                !.graph = add_edges(@, state, succs),
                !.expansions = Append(@, state)]
        ELSE [log EXCEPT !.frontier = p.rest]

\* the loop stopping with one entry left
loop_continues_above_one(frontier) == Len(frontier) > 1

\* `while queue:` / `while stack:` / `while priority_queue:` goes on
loop_continues(frontier) == frontier # <<>>

\* `return [], graph` when the loop ends: an empty list of moves for None
search_fails_empty_path(f) == [f EXCEPT !.returned = TRUE, !.value = Some(<<>>)]

\* `return None, graph` when the loop ends
search_fails(f) == [f EXCEPT !.returned = TRUE, !.value = None]

(* depth_first_search *)

dfs_start == new_frame(<< <<initial_state, <<>>>> >>)

\* stack.pop(0) in place of stack.pop(): the oldest entry leaves
pop_takes_oldest(stack) == [entry |-> Head(stack), rest |-> Tail(stack)]

\* stack.pop()
pop(stack) ==
    [entry |-> stack[Len(stack)], rest |-> SubSeq(stack, 1, Len(stack) - 1)]

\* the pass without `if state not in visited`
dfs_iteration_expands_again(f) ==
    LET p == [entry |-> f.frontier[Len(f.frontier)],
              rest |-> SubSeq(f.frontier, 1, Len(f.frontier) - 1)]
        state == p.entry[1]
        path == p.entry[2]
        succs == get_successors(state)
        log == [f EXCEPT !.popped = Append(@, state)]
    IN  IF state = goal_state
        THEN [log EXCEPT !.frontier = p.rest, !.returned = TRUE, !.value = Some(path)]
        ELSE [log EXCEPT
                !.visited = @ \cup {state},
                !.frontier = p.rest \o [i \in 1..Len(succs) |->
                                  <<succs[i][1], Append(path, succs[i][2])>>],
                !.graph = add_edges(@, state, succs),
                !.expansions = Append(@, state)]

\* one pass of `while stack:` (the stack is not empty)
dfs_iteration(f) ==
    LET p == pop(f.frontier)
        state == p.entry[1]
        path == p.entry[2]
        succs == get_successors(state)
        log == [f EXCEPT !.popped = Append(@, state)]
    IN  IF state = goal_state
        THEN [log EXCEPT !.frontier = p.rest, !.returned = TRUE, !.value = Some(path)]
        ELSE IF state \notin f.visited
        THEN [log EXCEPT
                !.visited = @ \cup {state},
                !.frontier = p.rest \o [i \in 1..Len(succs) |->
                                  <<succs[i][1], Append(path, succs[i][2])>>],
                !.graph = add_edges(@, state, succs),
                !.expansions = Append(@, state)]
        ELSE [log EXCEPT !.frontier = p.rest]

(* a_star_search *)

\* priority queue elements are tuples (priority, state, path_taken)
a_star_start ==
    new_frame(<< <<heuristic(initial_state), initial_state, <<>>>> >>)

\* Python's < on two (priority, state, path) tuples, which orders the heap
entry_less(x, y) ==
    IF x[1] # y[1] THEN x[1] < y[1]
    ELSE IF x[2] # y[2] THEN tuple_less(x[2], y[2])
    ELSE list_less(x[3], y[3])

\* the place of the smallest element of a non-empty heap
smallest(heap) ==
    CHOOSE i \in 1..Len(heap) :
        \A j \in 1..Len(heap) :
            j # i => (entry_less(heap[i], heap[j]) \/ (heap[i] = heap[j] /\ i < j))

\* heap.pop() in place of heapq.heappop(heap): the last element leaves
heappop_takes_last(heap) ==
    [entry |-> heap[Len(heap)], rest |-> SubSeq(heap, 1, Len(heap) - 1)]

\* heapq.heappop(heap): the smallest element leaves the heap
heappop(heap) ==
    LET i == smallest(heap)
    IN  [entry |-> heap[i],
         rest |-> SubSeq(heap, 1, i - 1) \o SubSeq(heap, i + 1, Len(heap))]

\* heapq.heappush(heap, item)
heappush(heap, item) == Append(heap, item)

\* the successor loop pushing `path` where new_path is meant
RECURSIVE push_successors_old_path(_, _, _)
push_successors_old_path(heap, path, succs) ==
    IF succs = <<>> THEN heap
    ELSE LET successor == Head(succs)[1]
             new_path == Append(path, Head(succs)[2])
             cost == Len(new_path)
             priority == cost + heuristic(successor)
         IN  push_successors_old_path(
                 Append(heap, <<priority, successor, path>>), path, Tail(succs))

\* the successor loop of a_star_search on the heap
RECURSIVE push_successors(_, _, _)
push_successors(heap, path, succs) ==
    IF succs = <<>> THEN heap
    ELSE LET successor == Head(succs)[1]
             new_path == Append(path, Head(succs)[2])
             cost == Len(new_path)
             priority == cost + heuristic(successor)
         IN  push_successors(heappush(heap, <<priority, successor, new_path>>),
                             path, Tail(succs))

\* the pass adding each successor to visited as it is pushed
a_star_iteration_marks_successors(f) ==
    LET p == heappop(f.frontier)
        state == p.entry[2]
        path == p.entry[3]
        succs == get_successors(state)
        log == [f EXCEPT !.popped = Append(@, state)]
    IN  IF state = goal_state
        THEN [log EXCEPT !.frontier = p.rest, !.returned = TRUE, !.value = Some(path)]
        ELSE IF state \notin f.visited
        THEN [log EXCEPT
                !.visited = @ \cup {state} \cup {succs[i][1] : i \in 1..Len(succs)},
                !.frontier = push_successors(p.rest, path, succs),
                !.graph = add_edges(@, state, succs),
                !.expansions = Append(@, state)]
        ELSE [log EXCEPT !.frontier = p.rest]

\* one pass of `while priority_queue:` (the heap is not empty)
a_star_iteration(f) ==
    LET p == heappop(f.frontier)
        state == p.entry[2]
        path == p.entry[3]
        succs == get_successors(state)
        log == [f EXCEPT !.popped = Append(@, state)]
    IN  IF state = goal_state
        THEN [log EXCEPT !.frontier = p.rest, !.returned = TRUE, !.value = Some(path)]
        ELSE IF state \notin f.visited
        THEN [log EXCEPT
                !.visited = @ \cup {state},
                !.frontier = push_successors(p.rest, path, succs),
                !.graph = add_edges(@, state, succs),
                !.expansions = Append(@, state)]
        ELSE [log EXCEPT !.frontier = p.rest]

---------------------------------------------------------------------------
(* Part II: shortest_path.  Python's None is the empty tuple here, and a   *)
(* value v that may be None is <<v>>.                                      *)

Strategies == <<"BFS", "DFS", "UCS", "A*">>

\* the largest r with r * r <= n
isqrt(n) == CHOOSE r \in 0..n : r * r <= n /\ n < (r + 1) * (r + 1)

\* math.hypot(dx, dy); the coordinates used are multiples of (3, 4), so
\* every distance is a whole number and the square root is exact
hypot(dx, dy) == isqrt(dx * dx + dy * dy)

(* state_space.py *)

\* Vertex(x, y, name)
Vertex(x, y, name) ==
    [location |-> <<x, y>>, name |-> name, reachable |-> <<>>, edges |-> <<>>]

\* StateSpace()
new_space ==
    [vertices |-> <<>>, polygon_edges |-> <<>>, auto_edges |-> <<>>,
     polygons |-> <<>>, start |-> <<>>, goal |-> <<>>]

\* d[key] = value on a dict kept as its list of (key, value) in insertion
\* order: a key already there keeps its place
dict_set(d, key, value) ==
    IF \E i \in 1..Len(d) : d[i][1] = key
    THEN [i \in 1..Len(d) |-> IF d[i][1] = key THEN <<key, value>> ELSE d[i]]
    ELSE Append(d, <<key, value>>)

\* list(d.values())
dict_values(d) == [i \in 1..Len(d) |-> d[i][2]]

\* self.vertices[name] = v
put_vertex(vertices, name, v) == (name :> v) @@ vertices

add_vertex(sp, x, y, name) ==
    [sp EXCEPT !.vertices = put_vertex(@, name, Vertex(x, y, name))]

\* start and goal refer to the Vertex object; only its location is read
\* through them, and a Vertex's location never changes
set_start(sp, x, y, name) ==
    [sp EXCEPT !.vertices = put_vertex(@, name, Vertex(x, y, name)),
               !.start = <<[name |-> name, location |-> <<x, y>>]>>]

set_goal(sp, x, y, name) ==
    [sp EXCEPT !.vertices = put_vertex(@, name, Vertex(x, y, name)),
               !.goal = <<[name |-> name, location |-> <<x, y>>]>>]

\* `if isinstance(b, str): b = [b]`; b is <<"str", name>> or <<"list", names>>
as_list(b) == IF b[1] = "str" THEN <<b[2]>> ELSE b[2]

\* `for v in b:` of assert_reachable
RECURSIVE assert_each(_, _, _)
assert_each(vertices, a, vs) ==
    IF vs = <<>> THEN vertices
    ELSE LET v == Head(vs)
             dx == vertices[v].location[1] - vertices[a].location[1]
             dy == vertices[v].location[2] - vertices[a].location[2]
             forth == [vertices EXCEPT
                          ![a].reachable = dict_set(@, <<dx, dy>>, v)]
             back == [forth EXCEPT
                          ![v].reachable = dict_set(@, <<-dx, -dy>>, a)]
         IN  assert_each(back, a, Tail(vs))

assert_reachable(sp, a, b) ==
    [sp EXCEPT !.vertices = assert_each(@, a, as_list(b))]

\* StateSpace.add_edge(a, b): the edge is recorded for drawing and the two
\* vertices are asserted reachable from each other
state_space_add_edge(sp, a, b) ==
    LET l1 == sp.vertices[a].location
        l2 == sp.vertices[b].location
        one == [sp.vertices EXCEPT ![a].edges = Append(@, b)]
        both == [one EXCEPT ![b].edges = Append(@, a)]
    IN  assert_reachable(
            [sp EXCEPT !.vertices = both,
                       !.polygon_edges = Append(@, << <<l1[1], l2[1]>>, <<l1[2], l2[2]>> >>)],
            a, <<"str", b>>)

\* `for i in range(len(v_names) - 1):` of connect_polygon, from place i on
RECURSIVE connect_each(_, _, _)
connect_each(sp, v_names, i) ==
    IF i > Len(v_names) - 1 THEN sp
    ELSE connect_each(state_space_add_edge(sp, v_names[i], v_names[i + 1]),
                      v_names, i + 1)

\* connect_polygon(v_names, shape_label); the list is not empty
connect_polygon(sp, v_names, shape_label) ==
    LET chained == connect_each(sp, v_names, 1)
        closed == state_space_add_edge(chained, v_names[1], v_names[Len(v_names)])
    IN  [closed EXCEPT
            !.polygons = Append(@, [label |-> shape_label, vertices |-> v_names])]

(* search_problem.py: ConvexPolygonPathProblem("S", "G", env) *)

problem == [initial |-> "S", goal |-> "G"]

actions(state) == dict_values(space.vertices[state].reachable)

result(state, action) == action

goal_test(state) == state = problem.goal

\* path_cost with |dx| + |dy| for the distance
path_cost_manhattan(c, state1, action, state2) ==
    LET l1 == space.vertices[state1].location
        l2 == space.vertices[state2].location
        dx == l2[1] - l1[1]
        dy == l2[2] - l1[2]
    IN  c + (IF dx < 0 THEN -dx ELSE dx) + (IF dy < 0 THEN -dy ELSE dy)

\* path_cost with dx + dy for the distance: negative against the axes
path_cost_signed_sum(c, state1, action, state2) ==
    LET l1 == space.vertices[state1].location
        l2 == space.vertices[state2].location
    IN  c + (l2[1] - l1[1]) + (l2[2] - l1[2])

path_cost(c, state1, action, state2) ==
    LET l1 == space.vertices[state1].location
        l2 == space.vertices[state2].location
    IN  c + hypot(l2[1] - l1[1], l2[2] - l1[2])

\* h(node) as astar_search calls it, with a node
h(node) ==
    LET l1 == space.vertices[node.state].location
        lg == space.goal[1].location
    IN  hypot(lg[1] - l1[1], lg[2] - l1[2])

(* berkeley_ai.search: Node, design document section 4.1 *)

make_root(state) ==
    [state |-> state, parent |-> <<>>, action |-> <<>>,
     path_cost |-> 0, depth |-> 0]

child_node(parent, action) ==
    LET successor == result(parent.state, action)
    IN  [state |-> successor, parent |-> <<parent>>, action |-> <<action>>,
         path_cost |-> path_cost(parent.path_cost, parent.state, action, successor),
         depth |-> parent.depth + 1]

\* node.path(): the nodes from the root to the node
RECURSIVE node_path(_)
node_path(node) ==
    IF node.parent = <<>> THEN <<node>>
    ELSE Append(node_path(node.parent[1]), node)

(* berkeley_ai.search: the shared loop, design document section 4.3 *)

\* what a priority frontier orders by
priority_of(strategy, node) ==
    IF strategy = "UCS" THEN node.path_cost ELSE node.path_cost + h(node)

\* the place of the node remove_next takes: the oldest (breadth-first), the
\* newest (depth-first), the oldest of the least priority (uniform-cost, A*)
next_place(strategy, frontier) ==
    CASE strategy = "BFS" -> 1
      [] strategy = "DFS" -> Len(frontier)
      [] OTHER ->
            CHOOSE i \in 1..Len(frontier) :
                \A j \in 1..Len(frontier) :
                    \/ priority_of(strategy, frontier[i]) < priority_of(strategy, frontier[j])
                    \/ /\ priority_of(strategy, frontier[i]) = priority_of(strategy, frontier[j])
                       /\ i <= j

remove_next(strategy, frontier) ==
    LET i == next_place(strategy, frontier)
    IN  [node |-> frontier[i],
         rest |-> SubSeq(frontier, 1, i - 1) \o SubSeq(frontier, i + 1, Len(frontier))]

\* child.state in frontier
in_frontier(state, frontier) ==
    \E i \in 1..Len(frontier) : frontier[i].state = state

\* `for action in problem.actions(node.state):` of the loop
RECURSIVE insert_children(_, _, _, _)
insert_children(frontier, explored, node, acts) ==
    IF acts = <<>> THEN frontier
    ELSE LET child == child_node(node, Head(acts))
         IN  insert_children(
                 IF child.state \notin explored /\ ~in_frontier(child.state, frontier)
                 THEN Append(frontier, child) ELSE frontier,
                 explored, node, Tail(acts))

\* the loop is entered: the root on the frontier, nothing explored; node is
\* what the search returns, expansions the states given to actions
graph_search_start ==
    [frontier |-> <<make_root(problem.initial)>>, explored |-> {},
     returned |-> FALSE, node |-> <<>>, expansions |-> <<>>]

no_search ==
    [frontier |-> <<>>, explored |-> {},
     returned |-> FALSE, node |-> <<>>, expansions |-> <<>>]

\* one pass of the loop (the frontier is not empty)
graph_search_iteration(strategy, g) ==
    LET r == remove_next(strategy, g.frontier)
        node == r.node
    IN  IF goal_test(node.state)
        THEN [g EXCEPT !.frontier = r.rest, !.returned = TRUE, !.node = <<node>>]
        ELSE IF node.state \in g.explored
        THEN [g EXCEPT !.frontier = r.rest]
        ELSE [g EXCEPT
                !.explored = @ \cup {node.state},
                !.frontier = insert_children(r.rest, g.explored \cup {node.state},
                                             node, actions(node.state)),
                !.expansions = Append(@, node.state)]

\* `if frontier.empty(): return FAILURE`
graph_search_failure(g) == [g EXCEPT !.returned = TRUE, !.node = <<>>]

(* search_problem.py: run_searches *)

\* results[strategy] = (path, cost) of the node, or (None, None)
result_of(node) ==
    IF node # <<>>
    THEN << <<[i \in 1..Len(node_path(node[1])) |-> node_path(node[1])[i].state]>>,
            <<node[1].path_cost>> >>
    ELSE << <<>>, <<>> >>

\* the search after a strategy's, "end" after the last
following(strategy) ==
    CASE strategy = "BFS" -> "DFS"
      [] strategy = "DFS" -> "UCS"
      [] strategy = "UCS" -> "A*"
      [] strategy = "A*" -> "end"

---------------------------------------------------------------------------
(* main(): the three searches, one after another *)

States == (0..3) \X (0..3) \X (0..1)
ValidStates == {s \in States : is_valid(s)}

Searches == {"bfs", "dfs", "astar"}

\* nothing of shortest_path has run
PolyIdle ==
    /\ space = new_space
    /\ at = "build"
    /\ search = no_search
    /\ results = <<>>
    /\ calls = [vertex |-> 0, asserts |-> 0]

\* the problem after construction has initial_state (3, 3, 1) and goal_state
\* (0, 0, 0); both are plain attributes, and the searches read them
Init ==
    /\ initial_state \in ValidStates
    /\ goal_state \in ValidStates
    /\ pc = "start"
    /\ frame = new_frame(<<>>)
    /\ solutions = [a \in Searches |-> None]
    /\ PolyIdle
    /\ threads = <<>>

\* problem.breadth_first_search() is entered
call_bfs ==
    /\ pc = "start"
    /\ pc' = "bfs"
    /\ frame' = bfs_start
    /\ UNCHANGED <<initial_state, goal_state, solutions>>
    /\ UNCHANGED <<polyVars, threads>>

bfs_step ==
    /\ pc = "bfs" /\ ~frame.returned /\ loop_continues(frame.frontier)
    /\ frame' = bfs_iteration(frame)
    /\ UNCHANGED <<initial_state, goal_state, pc, solutions>>
    /\ UNCHANGED <<polyVars, threads>>

bfs_none ==
    /\ pc = "bfs" /\ ~frame.returned /\ ~loop_continues(frame.frontier)
    /\ frame' = search_fails(frame)
    /\ UNCHANGED <<initial_state, goal_state, pc, solutions>>
    /\ UNCHANGED <<polyVars, threads>>

\* bfs_solution is assigned and problem.depth_first_search() is entered
call_dfs ==
    /\ pc = "bfs" /\ frame.returned
    /\ solutions' = [solutions EXCEPT !["bfs"] = frame.value]
    /\ pc' = "dfs"
    /\ frame' = dfs_start
    /\ UNCHANGED <<initial_state, goal_state>>
    /\ UNCHANGED <<polyVars, threads>>

dfs_step ==
    /\ pc = "dfs" /\ ~frame.returned /\ loop_continues(frame.frontier)
    /\ frame' = dfs_iteration(frame)
    /\ UNCHANGED <<initial_state, goal_state, pc, solutions>>
    /\ UNCHANGED <<polyVars, threads>>

dfs_none ==
    /\ pc = "dfs" /\ ~frame.returned /\ ~loop_continues(frame.frontier)
    /\ frame' = search_fails(frame)
    /\ UNCHANGED <<initial_state, goal_state, pc, solutions>>
    /\ UNCHANGED <<polyVars, threads>>

\* dfs_solution is assigned and problem.a_star_search() is entered
call_a_star ==
    /\ pc = "dfs" /\ frame.returned
    /\ solutions' = [solutions EXCEPT !["dfs"] = frame.value]
    /\ pc' = "astar"
    /\ frame' = a_star_start
    /\ UNCHANGED <<initial_state, goal_state>>
    /\ UNCHANGED <<polyVars, threads>>

a_star_step ==
    /\ pc = "astar" /\ ~frame.returned /\ loop_continues(frame.frontier)
    /\ frame' = a_star_iteration(frame)
    /\ UNCHANGED <<initial_state, goal_state, pc, solutions>>
    /\ UNCHANGED <<polyVars, threads>>

a_star_none ==
    /\ pc = "astar" /\ ~frame.returned /\ ~loop_continues(frame.frontier)
    /\ frame' = search_fails(frame)
    /\ UNCHANGED <<initial_state, goal_state, pc, solutions>>
    /\ UNCHANGED <<polyVars, threads>>

\* a_star_solution is assigned; main() ends
finish ==
    /\ pc = "astar" /\ frame.returned
    /\ solutions' = [solutions EXCEPT !["astar"] = frame.value]
    /\ pc' = "done"
    /\ UNCHANGED <<initial_state, goal_state, frame>>
    /\ UNCHANGED <<polyVars, threads>>

Next ==
    \/ call_bfs \/ bfs_step \/ bfs_none
    \/ call_dfs \/ dfs_step \/ dfs_none
    \/ call_a_star \/ a_star_step \/ a_star_none
    \/ finish

Spec == Init /\ [][Next]_vars

\* main() goes on while it has a step to take: nothing in it waits
FairSpec == Spec /\ WF_vars(Next)

---------------------------------------------------------------------------
(* shortest_path: a caller builds a StateSpace, then runs run_searches on  *)
(* ConvexPolygonPathProblem("S", "G", env)                                 *)

MaxVertexCalls == 4
MaxAsserts == 2
MaxList == 2

\* what the calls are made with
StartInputs == {<<0, 0>>}
GoalInputs == {<<3, 4>>, <<9, 12>>}
VertexInputs == {<<-3, -4, "A">>, <<6, 8, "B">>}

\* the lists of one to MaxList different names of `names`
NameLists(names) ==
    {l \in UNION {[1..k -> names] : k \in 1..MaxList} :
        \A i, j \in 1..Len(l) : i # j => l[i] # l[j]}

\* the second argument of assert_reachable: a name or a list of names
ReachableArgs(names) ==
    {<<"str", v>> : v \in names} \cup {<<"list", l>> : l \in NameLists(names)}

RiverIdle ==
    /\ initial_state = <<3, 3, 1>>
    /\ goal_state = <<0, 0, 0>>
    /\ pc = "start"
    /\ frame = new_frame(<<>>)
    /\ solutions = [a \in Searches |-> None]

InitPoly == RiverIdle /\ PolyIdle /\ threads = <<>>

call_set_start ==
    /\ at = "build" /\ calls.vertex < MaxVertexCalls
    /\ \E l \in StartInputs : space' = set_start(space, l[1], l[2], "S")
    /\ calls' = [calls EXCEPT !.vertex = @ + 1]
    /\ UNCHANGED <<at, search, results, riverVars, threads>>

call_set_goal ==
    /\ at = "build" /\ calls.vertex < MaxVertexCalls
    /\ \E l \in GoalInputs : space' = set_goal(space, l[1], l[2], "G")
    /\ calls' = [calls EXCEPT !.vertex = @ + 1]
    /\ UNCHANGED <<at, search, results, riverVars, threads>>

call_add_vertex ==
    /\ at = "build" /\ calls.vertex < MaxVertexCalls
    /\ \E v \in VertexInputs : space' = add_vertex(space, v[1], v[2], v[3])
    /\ calls' = [calls EXCEPT !.vertex = @ + 1]
    /\ UNCHANGED <<at, search, results, riverVars, threads>>

\* assert_reachable(a, b) between vertices that exist
call_assert_reachable ==
    /\ at = "build" /\ calls.asserts < MaxAsserts
    /\ \E a \in DOMAIN space.vertices :
        \E b \in ReachableArgs(DOMAIN space.vertices \ {a}) :
            space' = assert_reachable(space, a, b)
    /\ calls' = [calls EXCEPT !.asserts = @ + 1]
    /\ UNCHANGED <<at, search, results, riverVars, threads>>

\* run_searches(problem) is entered: results = {}, and the breadth-first
\* search starts; the start and the goal vertex exist
call_run_searches ==
    /\ at = "build"
    /\ {problem.initial, problem.goal} \subseteq DOMAIN space.vertices
    /\ space.goal # <<>>
    /\ at' = Strategies[1]
    /\ search' = graph_search_start
    /\ results' = <<>>
    /\ UNCHANGED <<space, calls, riverVars, threads>>

IsStrategy(x) == \E i \in 1..Len(Strategies) : Strategies[i] = x

search_step ==
    /\ IsStrategy(at) /\ ~search.returned /\ search.frontier # <<>>
    /\ search' = graph_search_iteration(at, search)
    /\ UNCHANGED <<space, at, results, calls, riverVars, threads>>

search_failure ==
    /\ IsStrategy(at) /\ ~search.returned /\ search.frontier = <<>>
    /\ search' = graph_search_failure(search)
    /\ UNCHANGED <<space, at, results, calls, riverVars, threads>>

\* results[strategy] is set; the next search starts, or run_searches returns
record_result ==
    /\ IsStrategy(at) /\ search.returned
    /\ results' = (at :> result_of(search.node)) @@ results
    /\ at' = following(at)
    /\ search' = IF following(at) = "end" THEN search ELSE graph_search_start
    /\ UNCHANGED <<space, calls, riverVars, threads>>

NextPoly ==
    \/ call_set_start \/ call_set_goal \/ call_add_vertex
    \/ call_assert_reachable
    \/ call_run_searches \/ search_step \/ search_failure \/ record_result

SpecPoly == InitPoly /\ [][NextPoly]_vars

---------------------------------------------------------------------------
(* A caller builds a StateSpace with every call that changes it, on        *)
(* vertices of which two may lie at one place                              *)

MaxPolygon == 3

\* a vertex at the coordinates of another one
CoincidentInputs == {<<6, 8, "C">>}

\* shape_label: None, or a label
LabelInputs == {<<>>, <<"Tri1">>}

\* the lists of one to MaxPolygon different names of `names`
PolygonLists(names) ==
    {l \in UNION {[1..k -> names] : k \in 1..MaxPolygon} :
        \A i, j \in 1..Len(l) : i # j => l[i] # l[j]}

call_add_coincident_vertex ==
    /\ at = "build" /\ calls.vertex < MaxVertexCalls
    /\ \E v \in CoincidentInputs : space' = add_vertex(space, v[1], v[2], v[3])
    /\ calls' = [calls EXCEPT !.vertex = @ + 1]
    /\ UNCHANGED <<at, search, results, riverVars, threads>>

\* add_edge(a, b) between vertices that exist
call_add_edge ==
    /\ at = "build" /\ calls.asserts < MaxAsserts
    /\ \E a, b \in DOMAIN space.vertices : space' = state_space_add_edge(space, a, b)
    /\ calls' = [calls EXCEPT !.asserts = @ + 1]
    /\ UNCHANGED <<at, search, results, riverVars, threads>>

\* connect_polygon(v_names, shape_label) on vertices that exist
call_connect_polygon ==
    /\ at = "build" /\ calls.asserts < MaxAsserts
    /\ \E l \in PolygonLists(DOMAIN space.vertices) :
        \E label \in LabelInputs : space' = connect_polygon(space, l, label)
    /\ calls' = [calls EXCEPT !.asserts = @ + 1]
    /\ UNCHANGED <<at, search, results, riverVars, threads>>

NextBuild ==
    \/ call_set_start \/ call_set_goal \/ call_add_vertex
    \/ call_add_coincident_vertex
    \/ call_assert_reachable \/ call_add_edge \/ call_connect_polygon

SpecBuild == InitPoly /\ [][NextBuild]_vars

---------------------------------------------------------------------------
(* Either program is run: main() of Exercise3.9.py on its problem, or a    *)
(* caller of shortest_path                                                 *)

\* a step of main() while nothing of shortest_path has run, or a step of
\* the caller of shortest_path while main() has not started
NextEither ==
    \/ PolyIdle /\ call_bfs
    \/ PolyIdle /\ bfs_step
    \/ PolyIdle /\ bfs_none
    \/ PolyIdle /\ call_dfs
    \/ PolyIdle /\ dfs_step
    \/ PolyIdle /\ dfs_none
    \/ PolyIdle /\ call_a_star
    \/ PolyIdle /\ a_star_step
    \/ PolyIdle /\ a_star_none
    \/ PolyIdle /\ finish
    \/ RiverIdle /\ call_set_start
    \/ RiverIdle /\ call_set_goal
    \/ RiverIdle /\ call_add_vertex
    \/ RiverIdle /\ call_assert_reachable
    \/ RiverIdle /\ call_run_searches
    \/ RiverIdle /\ search_step
    \/ RiverIdle /\ search_failure
    \/ RiverIdle /\ record_result

SpecEither == Init /\ [][NextEither]_vars

---------------------------------------------------------------------------
(* Several searches on one MissionariesAndCannibals object, their loop     *)
(* passes interleaved.  threads[i] is <<>> before the i-th search is        *)
(* called and <<its locals>> after.                                         *)

\* the searches that are called, by place
Invocations == <<"bfs", "dfs", "astar">>

\* the problems the searches are run on: the one constructed, and one
\* whose goal no move reaches
SharedProblems == {<< <<3, 3, 1>>, <<0, 0, 0>> >>, << <<3, 3, 1>>, <<3, 3, 0>> >>}

start_of(kind) ==
    CASE kind = "bfs" -> bfs_start
      [] kind = "dfs" -> dfs_start
      [] kind = "astar" -> a_star_start

iteration_of(kind, f) ==
    CASE kind = "bfs" -> bfs_iteration(f)
      [] kind = "dfs" -> dfs_iteration(f)
      [] kind = "astar" -> a_star_iteration(f)

\* the locals with one visited set for all the searches
locals_shared_visited(all, i) ==
    [all[i][1] EXCEPT
        !.visited = UNION {all[j][1].visited : j \in {k \in DOMAIN all : all[k] # <<>>}}]

\* the locals a pass of the i-th search works on: queue / stack /
\* priority_queue, visited and graph are local variables of its call
locals_of(all, i) == all[i][1]

InitThreads ==
    /\ \E pr \in SharedProblems : initial_state = pr[1] /\ goal_state = pr[2]
    /\ pc = "start"
    /\ frame = new_frame(<<>>)
    /\ solutions = [a \in Searches |-> None]
    /\ PolyIdle
    /\ threads = [i \in 1..Len(Invocations) |-> <<>>]

\* the i-th search is called: its locals are created
thread_call(i) ==
    /\ threads[i] = <<>>
    /\ threads' = [threads EXCEPT ![i] = <<start_of(Invocations[i])>>]
    /\ UNCHANGED <<riverVars, polyVars>>

\* one pass of the loop of the i-th search
thread_step(i) ==
    /\ threads[i] # <<>>
    /\ ~threads[i][1].returned /\ loop_continues(threads[i][1].frontier)
    /\ threads' = [threads EXCEPT
                      ![i] = <<iteration_of(Invocations[i], locals_of(threads, i))>>]
    /\ UNCHANGED <<riverVars, polyVars>>

\* the loop of the i-th search ends: it returns None
thread_none(i) ==
    /\ threads[i] # <<>>
    /\ ~threads[i][1].returned /\ ~loop_continues(threads[i][1].frontier)
    /\ threads' = [threads EXCEPT ![i] = <<search_fails(locals_of(threads, i))>>]
    /\ UNCHANGED <<riverVars, polyVars>>

NextThreads ==
    \E i \in 1..Len(Invocations) : thread_call(i) \/ thread_step(i) \/ thread_none(i)

SpecThreads == InitThreads /\ [][NextThreads]_vars

---------------------------------------------------------------------------
(* What the claims speak of *)

\* the problem as constructed: (3, 3, 1) to (0, 0, 0)
Standard == initial_state = <<3, 3, 1>> /\ goal_state = <<0, 0, 0>>

\* the states one move away
Successors(state) ==
    {get_successors(state)[i][1] : i \in 1..Len(get_successors(state))}

\* the states reachable from a set of states
RECURSIVE ReachableFrom(_)
ReachableFrom(seen) ==
    LET more == seen \cup UNION {Successors(s) : s \in seen}
    IN  IF more = seen THEN seen ELSE ReachableFrom(more)

Reachable == ReachableFrom({initial_state})

\* the least number of moves from the states of `layer` to `target`, layer
\* by layer; -1 if there is no way
RECURSIVE MovesFrom(_, _, _, _)
MovesFrom(layer, seen, target, n) ==
    IF target \in layer THEN n
    ELSE IF layer = {} THEN -1
    ELSE LET next == UNION {Successors(s) : s \in layer} \ seen
         IN  MovesFrom(next, seen \cup next, target, n + 1)

LeastMoves == MovesFrom({initial_state}, {initial_state}, goal_state, 0)

\* the states passed through when the moves of `path` are made from `state`
RECURSIVE Replay(_, _)
Replay(state, path) ==
    IF path = <<>> THEN <<state>>
    ELSE <<state>> \o Replay(new_state(state, Head(path)), Tail(path))

Last(seq) == seq[Len(seq)]

\* no bank has missionaries outnumbered by cannibals
BanksSafe(state) ==
    /\ state[1] \in 0..3 /\ state[2] \in 0..3
    /\ (state[1] = 0 \/ state[1] >= state[2])
    /\ (3 - state[1] = 0 \/ 3 - state[1] >= 3 - state[2])

\* a search of main() has just returned
Returned(which) == pc = which /\ frame.returned

\* the (state, path) pairs on the frontier of the running search
FrontierPairs ==
    {IF pc \in {"astar", "done"}
        THEN <<frame.frontier[i][2], frame.frontier[i][3]>>
        ELSE frame.frontier[i] : i \in 1..Len(frame.frontier)}

\* every move of `path`, made from `state`, is one get_successors offers
Offered(state, path) ==
    LET seq == Replay(state, path)
    IN  \A i \in 1..Len(path) :
            \E k \in 1..Len(get_successors(seq[i])) :
                get_successors(seq[i])[k] = <<seq[i + 1], path[i]>>

---------------------------------------------------------------------------
(* Claims *)

\* C1: on the 3-missionaries/3-cannibals problem breadth_first_search
\* returns a solution, not None, of exactly 11 actions.
C1_BfsElevenActions ==
    (Standard /\ Returned("bfs")) =>
        (frame.value.some /\ Len(frame.value.path) = 11)

C1_Witness ==
    Standard /\ Returned("bfs") /\ frame.value.some /\ Len(frame.value.path) = 11

\* C2: on the 3-missionaries/3-cannibals problem the solution a_star_search
\* returns has as many actions as the one breadth_first_search returns.
C2_AStarAsShortAsBfs ==
    (Standard /\ pc = "done") =>
        /\ solutions["astar"].some /\ solutions["bfs"].some
        /\ Len(solutions["astar"].path) = Len(solutions["bfs"].path)

C2_Witness ==
    /\ Standard /\ pc = "done" /\ solutions["astar"].some
    /\ solutions["astar"].path # solutions["bfs"].path

\* C3: on the 3-missionaries/3-cannibals problem depth_first_search returns
\* a solution whose replay from (3, 3, 1) ends at (0, 0, 0) and passes only
\* through states in which no bank has its missionaries outnumbered.
C3_DfsSolutionValid ==
    (Standard /\ Returned("dfs")) =>
        /\ frame.value.some
        /\ LET seq == Replay(<<3, 3, 1>>, frame.value.path)
           IN  /\ Last(seq) = <<0, 0, 0>>
               /\ \A i \in 1..Len(seq) : BanksSafe(seq[i])

C3_Witness ==
    Standard /\ Returned("dfs") /\ frame.value.some /\ Len(frame.value.path) > 1

\* C5: with unit costs, the path breadth-first search returns has no more
\* actions than any other path from the initial state to the goal state.
C5_BfsShallowest ==
    (Returned("bfs") /\ frame.value.some) =>
        Len(frame.value.path) = LeastMoves

C5_Witness ==
    /\ Returned("bfs") /\ frame.value.some /\ Len(frame.value.path) >= 3
    /\ ~Standard

\* C6: in one run of a search no state is given to get_successors twice.
C6_NoStateExpandedTwice ==
    \A i, j \in 1..Len(frame.expansions) :
        i # j => frame.expansions[i] # frame.expansions[j]

C6_Witness ==
    /\ Len(frame.expansions) >= 3
    /\ \E i, j \in 1..Len(frame.popped) : i # j /\ frame.popped[i] = frame.popped[j]

\* C7: when the goal cannot be reached, every search returns None, and the
\* states it has expanded are then exactly those reachable from the initial
\* state.
C7_FailureVisitsComponent ==
    (frame.returned /\ goal_state \notin Reachable) =>
        (frame.value = None /\ frame.visited = Reachable)

C7_Witness ==
    /\ Returned("astar") /\ frame.value = None
    /\ solutions["bfs"] = None /\ solutions["dfs"] = None
    /\ Cardinality(frame.visited) >= 3

\* C8: a frontier entry's state is what replaying its path from the initial
\* state gives, move by move through transitions get_successors offers, and
\* the replay of a returned solution ends in the goal state.
C8_PathReplaysToState ==
    /\ \A e \in FrontierPairs :
            /\ Last(Replay(initial_state, e[2])) = e[1]
            /\ Offered(initial_state, e[2])
    /\ (frame.returned /\ frame.value.some) =>
            /\ Last(Replay(initial_state, frame.value.path)) = goal_state
            /\ Offered(initial_state, frame.value.path)

C8_Witness ==
    /\ frame.returned /\ frame.value.some /\ Len(frame.value.path) >= 3
    /\ frame.frontier # <<>>

---------------------------------------------------------------------------
(* What the claims on shortest_path speak of *)

Neighbours(u) == {actions(u)[i] : i \in 1..Len(actions(u))}

\* the cost of the one step from u to v
StepCost(u, v) == path_cost(0, u, v, v)

Least(numbers) == CHOOSE n \in numbers : \A k \in numbers : n <= k

\* the least cost of a path from problem.initial to each vertex, found by
\* relaxing every edge `rounds` times; -1 where no path is known
RECURSIVE LeastCosts(_, _)
LeastCosts(cost, rounds) ==
    IF rounds = 0 THEN cost
    ELSE LeastCosts(
            [v \in DOMAIN space.vertices |->
                LET known == IF cost[v] >= 0 THEN {cost[v]} ELSE {}
                    through == {cost[u] + StepCost(u, v) :
                                   u \in {w \in DOMAIN space.vertices :
                                            cost[w] >= 0 /\ v \in Neighbours(w)}}
                IN  IF known \cup through = {} THEN -1
                    ELSE Least(known \cup through)],
            rounds - 1)

LeastCostTo(v) ==
    LeastCosts([w \in DOMAIN space.vertices |->
                    IF w = problem.initial THEN 0 ELSE -1],
               Cardinality(DOMAIN space.vertices))[v]

\* the space of two vertices, S at (0, 0) and G at (3, 4), joined by one
\* assert_reachable edge
TwoVertexSpace ==
    /\ DOMAIN space.vertices = {"S", "G"}
    /\ space.vertices["S"].location = <<0, 0>>
    /\ space.vertices["G"].location = <<3, 4>>
    /\ space.vertices["S"].reachable = << <<<<3, 4>>, "G">> >>
    /\ space.vertices["G"].reachable = << <<<<-3, -4>>, "S">> >>

---------------------------------------------------------------------------
(* Claims on shortest_path *)

\* C4: with costs >= 0, the node uniform-cost search returns costs no more
\* than any path from the initial state to a goal state, and A* with an
\* admissible heuristic returns a node of that least cost.
C4_LeastCostReturned ==
    (at \in {"UCS", "A*"} /\ search.returned /\ search.node # <<>>) =>
        search.node[1].path_cost = LeastCostTo(problem.goal)

\* C4, for A* alone
C4_AStarLeastCost ==
    (at = "A*" /\ search.returned /\ search.node # <<>>) =>
        search.node[1].path_cost = LeastCostTo(problem.goal)

\* C10: on the space of S = (0, 0) and G = (3, 4) joined by one edge, each
\* of BFS, DFS, UCS and A* returns the path [S, G] with cost 5.
C10_TwoVertexPath ==
    (at = "end" /\ TwoVertexSpace) =>
        \A i \in 1..Len(Strategies) :
            results[Strategies[i]] = << << <<"S", "G">> >>, <<5>> >>

C10_Witness ==
    /\ at = "end" /\ TwoVertexSpace
    /\ DOMAIN results = {"BFS", "DFS", "UCS", "A*"}
    /\ results["A*"][2] = <<5>>
---------------------------------------------------------------------------
(* Claims on the outcome and the order of a search *)

\* a state taken from the frontier was the goal state
GoalPopped == \E i \in 1..Len(frame.popped) : frame.popped[i] = goal_state

\* (None, None), the result run_searches records for a failed search
NoneNone == << <<>>, <<>> >>

\* C11: a search whose frontier runs empty without a goal state popped
\* returns the failure value (None from a river-crossing search, and
\* (None, None) recorded for the strategy by run_searches), and a search
\* returns a solution exactly when a state it popped passed the goal test.
C11_FailureIsAValue ==
    /\ frame.returned =>
            /\ frame.value.some <=> GoalPopped
            /\ ~GoalPopped => (frame.value = None /\ frame.frontier = <<>>)
            /\ GoalPopped => Last(frame.popped) = goal_state
    /\ (IsStrategy(at) /\ search.returned) =>
            IF search.node = <<>>
            THEN /\ search.frontier = <<>>
                 /\ \A s \in search.explored : ~goal_test(s)
            ELSE goal_test(search.node[1].state)
    /\ \A s \in DOMAIN results :
            \/ results[s] = NoneNone
            \/ /\ results[s][1] # <<>> /\ results[s][2] # <<>>
               /\ goal_test(Last(results[s][1][1]))

C11_Witness ==
    /\ Returned("dfs") /\ frame.value = None /\ ~GoalPopped
    /\ Len(frame.popped) >= 3 /\ solutions["bfs"] = None

\* run_searches has recorded (None, None) for a strategy
C11_RecordedFailure ==
    /\ at = "end" /\ results["BFS"] = NoneNone /\ results["A*"] = NoneNone
    /\ Cardinality(DOMAIN space.vertices) >= 3
\* C12: every search of main() returns (a path or the failure value),
\* depth-first search on the cyclic river-crossing graph included, after
\* giving no more states to get_successors than there are states.
C12_EverySearchEnds ==
    /\ [](Len(frame.expansions) <= Cardinality(ValidStates))
    /\ <>(pc = "done")

\* depth-first search has returned after meeting states it had visited
C12_Witness ==
    /\ Returned("dfs")
    /\ \E i \in 1..Len(frame.popped) :
            \E j \in 1..(i - 1) : frame.popped[j] = frame.popped[i]
    /\ Len(frame.expansions) >= 3
\* the locals of a search run from its call to its return with nothing else
\* running
RECURSIVE run_alone(_, _)
run_alone(kind, f) ==
    IF f.returned THEN f
    ELSE IF loop_continues(f.frontier) THEN run_alone(kind, iteration_of(kind, f))
    ELSE search_fails(f)

\* C13: searches on one problem object whose loop passes are interleaved in
\* any order each return what they return when run alone (with the same
\* visited set and recorded graph), and no step of a search changes the
\* problem's initial_state or goal_state.
C13_InterleavedAsAlone ==
    /\ [](\A i \in 1..Len(Invocations) :
            (threads[i] # <<>> /\ threads[i][1].returned) =>
                threads[i][1] = run_alone(Invocations[i], start_of(Invocations[i])))
    /\ [][initial_state' = initial_state /\ goal_state' = goal_state]_vars

\* one search has returned a path while the others are in their loops, each
\* with states visited
C13_Witness ==
    /\ \A i \in 1..Len(Invocations) : threads[i] # <<>>
    /\ threads[2][1].returned /\ threads[2][1].value.some
    /\ ~threads[1][1].returned /\ Cardinality(threads[1][1].visited) >= 2
    /\ ~threads[3][1].returned /\ Cardinality(threads[3][1].visited) >= 2
\* the states of the entries on the frontier of the running search, in order
FrontierStates ==
    [i \in 1..Len(frame.frontier) |->
        IF pc \in {"astar", "done"} THEN frame.frontier[i][2] ELSE frame.frontier[i][1]]

\* C14: a successor goes on the frontier only if its state is neither
\* explored nor already on the frontier, so the frontier never holds two
\* entries with one state, nor an entry whose state is explored.
C14_FrontierUnseenOnly ==
    /\ \A i, j \in 1..Len(FrontierStates) :
            i # j => FrontierStates[i] # FrontierStates[j]
    /\ \A i \in 1..Len(FrontierStates) : FrontierStates[i] \notin frame.visited

\* C14, of the loop of the design's section 4.3 alone
C14_EngineFrontierUnseenOnly ==
    /\ \A i, j \in 1..Len(search.frontier) :
            i # j => search.frontier[i].state # search.frontier[j].state
    /\ \A i \in 1..Len(search.frontier) :
            search.frontier[i].state \notin search.explored
\* a_star_search is about to pop from a heap that is not empty
AStarPops == pc = "astar" /\ ~frame.returned /\ loop_continues(frame.frontier)

\* the least priority on a heap (heappush appends, heappop keeps the order
\* of what stays, so the places of the heap are in insertion order)
LeastPriority(heap) == Least({heap[i][1] : i \in 1..Len(heap)})

\* the entry of least priority that was inserted first
EarliestOfLeast(heap) ==
    heap[Least({i \in 1..Len(heap) : heap[i][1] = LeastPriority(heap)})]

\* C15: of the frontier entries of equal priority the one inserted first is
\* removed first; neither the state nor the path of an entry decides
\* between entries of equal priority.
C15_TiesByInsertionOrder ==
    AStarPops => heappop(frame.frontier).entry = EarliestOfLeast(frame.frontier)
\* C16: the goal test is made on the entry taken from the frontier, not on
\* an entry as it is inserted: a search that runs has popped no goal state,
\* and a search that returned a path returned at the first goal state it
\* popped, however long that state had been on the frontier.
C16_GoalTestAtPop ==
    /\ (pc \in Searches /\ ~frame.returned) => ~GoalPopped
    /\ (pc \in Searches /\ frame.returned /\ frame.value.some) =>
            /\ frame.popped # <<>> /\ Last(frame.popped) = goal_state
            /\ \A i \in 1..(Len(frame.popped) - 1) : frame.popped[i] # goal_state

\* breadth_first_search runs on with the goal state on its queue, behind
\* other entries
C16_Witness ==
    /\ pc = "bfs" /\ ~frame.returned /\ Len(frame.frontier) >= 3
    /\ Head(frame.frontier)[1] # goal_state
    /\ \E i \in 2..Len(frame.frontier) : frame.frontier[i][1] = goal_state
\* the least number of moves from a state to the goal state; -1 if none
MovesToGoal(state) == MovesFrom({state}, {state}, goal_state, 0)

\* C17: with the goal (0, 0, 0) and every move costing 1, the heuristic
\* m + c of a state on the heap of a_star_search is no more than the least
\* number of moves from that state to the goal.
C17_HeuristicAdmissible ==
    (pc = "astar" /\ goal_state = <<0, 0, 0>>) =>
        \A i \in 1..Len(frame.frontier) :
            LET state == frame.frontier[i][2]
            IN  MovesToGoal(state) >= 0 => heuristic(state) <= MovesToGoal(state)
\* C18: every entry on the heap of a_star_search has the priority
\* len(path) + heuristic(state), and the entry heappop takes has the least
\* priority of all entries on the heap.
C18_AStarPopsLeastPriority ==
    (pc = "astar" /\ ~frame.returned) =>
        /\ \A i \in 1..Len(frame.frontier) :
                frame.frontier[i][1] =
                    Len(frame.frontier[i][3]) + heuristic(frame.frontier[i][2])
        /\ loop_continues(frame.frontier) =>
                \A i \in 1..Len(frame.frontier) :
                    heappop(frame.frontier).entry[1] <= frame.frontier[i][1]

\* the heap holds entries of several priorities and the least is not the
\* oldest entry
C18_Witness ==
    /\ AStarPops /\ Len(frame.frontier) >= 4
    /\ frame.frontier[1][1] > LeastPriority(frame.frontier)
    /\ frame.frontier[Len(frame.frontier)][1] > LeastPriority(frame.frontier)
    /\ Len(frame.expansions) >= 3
\* C19: in breadth_first_search the entries leave the queue in the order
\* they were appended (what stays keeps its order at the head of the
\* queue, new entries go behind), and the entry a pass takes is no deeper
\* than the entry the next pass takes: the depths of the removed entries
\* never decrease.
C19_BfsDepthsNeverDecrease ==
    [][(pc = "bfs" /\ ~frame.returned /\ loop_continues(frame.frontier)) =>
        /\ SubSeq(frame'.frontier, 1, Len(frame.frontier) - 1) = Tail(frame.frontier)
        /\ loop_continues(frame'.frontier) =>
            Len(popleft(frame.frontier).entry[2]) <=
                Len(popleft(frame'.frontier).entry[2])]_vars

\* the queue holds entries of two depths after several passes
C19_Witness ==
    /\ pc = "bfs" /\ ~frame.returned /\ Len(frame.popped) >= 5
    /\ Len(frame.frontier) >= 3
    /\ Len(Head(frame.frontier)[2]) < Len(frame.frontier[Len(frame.frontier)][2])
\* C20: in depth_first_search a pass takes the entry appended last of those
\* on the stack (what stays keeps its place below, successors go on top),
\* and after a pass that expanded a state with successors the entry the
\* next pass takes is the last successor get_successors listed for it.
C20_DfsTakesNewest ==
    [][(pc = "dfs" /\ ~frame.returned /\ loop_continues(frame.frontier)) =>
        LET top == frame.frontier[Len(frame.frontier)]
            succs == get_successors(top[1])
        IN  /\ Last(frame'.popped) = top[1]
            /\ SubSeq(frame'.frontier, 1, Len(frame.frontier) - 1) =
                   SubSeq(frame.frontier, 1, Len(frame.frontier) - 1)
            /\ (Len(frame'.expansions) > Len(frame.expansions) /\ succs # <<>>) =>
                   pop(frame'.frontier).entry =
                       <<succs[Len(succs)][1], Append(top[2], succs[Len(succs)][2])>>]_vars

\* the stack holds several entries after passes that expanded states and
\* passes that met a visited state
C20_Witness ==
    /\ pc = "dfs" /\ ~frame.returned /\ Len(frame.expansions) >= 3
    /\ Len(frame.frontier) >= 3
    /\ Len(frame.popped) > Len(frame.expansions)
---------------------------------------------------------------------------
(* Claims on the visited set, the states and the recorded graph *)

\* C21: during one search run the visited set only grows, and it grows
\* only by the state the pass expands: the states in visited are exactly
\* the states given to get_successors so far.
C21_VisitedOnlyGrows ==
    [][(pc \in Searches /\ pc' = pc) =>
        /\ frame.visited \subseteq frame'.visited
        /\ frame'.visited # frame.visited =>
            /\ Len(frame'.expansions) = Len(frame.expansions) + 1
            /\ frame'.visited = frame.visited \cup {Last(frame'.expansions)}
        /\ frame'.visited = {frame'.expansions[i] : i \in 1..Len(frame'.expansions)}]_vars

\* a_star_search has expanded states and popped a visited one
C21_Witness ==
    /\ pc = "astar" /\ ~frame.returned
    /\ Cardinality(frame.visited) >= 3
    /\ Len(frame.popped) > Len(frame.expansions)
\* the tuples is_valid is probed on: the counts of the states and the
\* counts one person outside 0..3 that get_successors computes
ProbeStates == (-2..5) \X (-2..5) \X (0..1)

\* C22: is_valid(m, c, boat) holds exactly when m and c are in 0..3 and on
\* neither bank the missionaries, if there are any, are outnumbered; every
\* state get_successors returns, every state on a frontier and every state
\* of a recorded graph satisfies is_valid.
C22_OnlyValidStates ==
    /\ \A s \in ProbeStates : is_valid(s) <=> BanksSafe(s)
    /\ \A s \in ValidStates :
            \A i \in 1..Len(get_successors(s)) : BanksSafe(get_successors(s)[i][1])
    /\ \A e \in FrontierPairs : is_valid(e[1]) /\ BanksSafe(e[1])
    /\ \A e \in frame.graph : BanksSafe(e.u) /\ BanksSafe(e.v)

\* a search has recorded edges and holds entries, after get_successors left
\* out moves that lead to states that are not valid
C22_Witness ==
    /\ pc = "dfs" /\ ~frame.returned
    /\ Cardinality(frame.graph) >= 3 /\ Len(frame.frontier) >= 2
    /\ \E s \in frame.visited : Len(get_successors(s)) < Len(possible_moves)
\* the costs path_cost is probed with
CostProbes == {0, 5, 15}

\* the path costs from the root to a node, in order
ChainCosts(node) == [i \in 1..Len(node_path(node)) |-> node_path(node)[i].path_cost]

NeverDecreases(costs) == \A i \in 1..(Len(costs) - 1) : costs[i] <= costs[i + 1]

\* C23: path_cost(c, state1, action, state2) is at least c for every two
\* vertices of the space, and along the parent chain of every node on a
\* frontier, and of the node a search returns, the path cost never
\* decreases.
C23_PathCostNeverDecreases ==
    /\ \A u, v \in DOMAIN space.vertices :
            \A c \in CostProbes : path_cost(c, u, v, v) >= c
    /\ \A i \in 1..Len(search.frontier) :
            NeverDecreases(ChainCosts(search.frontier[i]))
    /\ search.node # <<>> => NeverDecreases(ChainCosts(search.node[1]))

\* a search has returned a node two steps from the root in a space of
\* four vertices
C23_Witness ==
    /\ IsStrategy(at) /\ search.returned /\ search.node # <<>>
    /\ search.node[1].depth >= 2 /\ search.node[1].path_cost > 0
    /\ Cardinality(DOMAIN space.vertices) >= 4
---------------------------------------------------------------------------
(* Claims on the StateSpace *)

\* a and b list each other in reachable
MutuallyReachable(a, b) == b \in Neighbours(a) /\ a \in Neighbours(b)

\* C24: after any sequence of add_vertex, set_start, set_goal, add_edge,
\* connect_polygon and assert_reachable calls, b is among the values of
\* a.reachable exactly when a is among the values of b.reachable.
C24_ReachabilityMutual ==
    \A a, b \in DOMAIN space.vertices :
        b \in Neighbours(a) <=> a \in Neighbours(b)

\* no name was given to two of the calls that create a vertex, and no two
\* vertices lie at one place
CreatedOnceApart ==
    /\ calls.vertex = Cardinality(DOMAIN space.vertices)
    /\ \A a, b \in DOMAIN space.vertices :
            a # b => space.vertices[a].location # space.vertices[b].location

\* C24, for the spaces whose vertices were created once each, at
\* different places
C24_MutualWhenCreatedOnceApart == CreatedOnceApart => C24_ReachabilityMutual
\* the names the calls create vertices under
VertexNames ==
    {problem.initial, problem.goal} \cup {v[3] : v \in VertexInputs \cup CoincidentInputs}

\* a step appends a polygon entry for the list v
PolygonAppended(v) ==
    /\ Len(space'.polygons) = Len(space.polygons) + 1
    /\ Last(space'.polygons).vertices = v

\* what a step that appended a polygon entry for the list v has done
PolygonClosed(v) ==
    /\ \A i \in 1..(Len(v) - 1) : MutuallyReachable(v[i], v[i + 1])'
    /\ MutuallyReachable(v[1], v[Len(v)])'
    /\ Len(space'.polygon_edges) = Len(space.polygon_edges) + Len(v)
    /\ SubSeq(space'.polygons, 1, Len(space.polygons)) = space.polygons
    /\ Last(space'.polygons).label \in LabelInputs

\* C25: connect_polygon(v_names) makes every two consecutive vertices of
\* the list, and the first and the last, mutually reachable, records
\* len(v_names) polygon edges and appends one polygon entry with the label
\* and the list.
C25_ConnectPolygonCloses ==
    [][\A v \in PolygonLists(VertexNames) :
            PolygonAppended(v) => PolygonClosed(v)]_vars

\* the vertices of the list lie at different places
Apart(v) ==
    \A i, j \in 1..Len(v) :
        i # j => space.vertices[v[i]].location # space.vertices[v[j]].location

\* C25, for lists of vertices at different places
C25_ClosesWhenApart ==
    [][\A v \in PolygonLists(VertexNames) :
            (PolygonAppended(v) /\ Apart(v)) => PolygonClosed(v)]_vars

---------------------------------------------------------------------------
\* C26: whenever the goal state is reachable from the initial state, a
\* search does not return None, and while it runs its frontier is not
\* empty: the loop cannot end before the goal state is taken from it.
C26_ReachableGoalIsFound ==
    (pc # "start" /\ goal_state \in Reachable) =>
        /\ frame.returned => frame.value.some
        /\ ~frame.returned => frame.frontier # <<>>

\* a search other than the first has found a goal several moves away, on
\* a problem that is not the constructed one, with entries left over
C26_Witness ==
    /\ Returned("dfs") /\ ~Standard /\ goal_state \in Reachable
    /\ frame.value.some /\ Len(frame.value.path) >= 3
    /\ Len(frame.expansions) >= 3

---------------------------------------------------------------------------
\* the replay of `path` from `state` follows edges of `graph`, one by one
DirectedPath(graph, state, path) ==
    LET seq == Replay(state, path)
    IN  \A i \in 1..Len(path) :
            \E e \in graph : e.u = seq[i] /\ e.v = seq[i + 1]

\* C27: the transition graph of a river-crossing search has an edge (u, v)
\* only if u is in visited and v is a successor of u by get_successors, and
\* the replay of a returned solution from the initial state is a directed
\* path in the graph.
C27_GraphOfExpansions ==
    /\ \A e \in frame.graph :
            e.u \in frame.visited /\ e.v \in Successors(e.u)
    /\ (frame.returned /\ frame.value.some) =>
            DirectedPath(frame.graph, initial_state, frame.value.path)

\* a solution of several moves is returned with a graph that has edges off
\* the solution's path as well
C27_Witness ==
    /\ frame.returned /\ frame.value.some /\ Len(frame.value.path) >= 3
    /\ Cardinality(frame.graph) > Len(frame.value.path)
    /\ \E e \in frame.graph : e.v \notin frame.visited

---------------------------------------------------------------------------
\* the boat side after n moves that started on side 1
SideAfter(n) == IF n % 2 = 0 THEN 1 ELSE 0

\* C28: the boat changes side on every move: with the boat on side 1 in the
\* initial state, as constructed, each frontier entry (state, path) has the
\* boat on side 1 when len(path) is even and on side 0 when it is odd, so a
\* solution returned for a goal with the boat on side 0 has an odd number
\* of actions.
C28_BoatFlipsEveryMove ==
    (pc # "start" /\ initial_state[3] = 1) =>
        /\ \A e \in FrontierPairs : e[1][3] = SideAfter(Len(e[2]))
        /\ (frame.returned /\ frame.value.some /\ goal_state[3] = 0) =>
                Len(frame.value.path) % 2 = 1

\* a solution of three or more moves is returned on the constructed
\* problem while the frontier still holds entries of both boat sides
C28_Witness ==
    /\ Standard /\ frame.returned /\ frame.value.some
    /\ Len(frame.value.path) >= 3
    /\ \E e \in FrontierPairs : e[1][3] = 1 /\ Len(e[2]) >= 2
    /\ \E e \in FrontierPairs : e[1][3] = 0
=============================================================================
